---- MODULE Spec2Model ----
(***************************************************************************)
(* Synthetic HR dataset generator: the storage layer (dataset/database.py) *)
(* and the generation workflow (dataset/workflow.py).                      *)
(*                                                                         *)
(* Identifiers (uuid.UUID values) are integers >= 1; Python's None and     *)
(* SQL's NULL are NoneVal.  Amounts are whole multiples of 10^9 currency   *)
(* units, so that the largest DECIMAL(12,2) value, 9999999999.99, lies     *)
(* between DecimalMax and DecimalMax + 1 units.                            *)
(*                                                                         *)
(* Four specifications:                                                    *)
(*   Spec        one invocation of dataset_workflow on an empty database   *)
(*   SpecResume  Spec plus re-invocation of a failed run on its checkpoint *)
(*   SpecDb      one call of a Database method or of add_employee_to_db,   *)
(*               with arbitrary arguments, on a populated database         *)
(*   SpecPure    one application of a function of dataset/utils.py or of   *)
(*               the Employee model                                        *)
(***************************************************************************)
EXTENDS Integers, Sequences, FiniteSets, TLC

VARIABLES
    company,     \* the Company returned by get_company_spec
    package,     \* what get_employee_compensation answers in this run
    wf,          \* the run: "running", "success" or "failed"
    pc,          \* where dataset_workflow stands: [stage, b, d, j, k]
    slots,       \* the generate_employee tasks launched and not yet joined
    db,          \* the DuckDB file: the tables that exist and their rows
    invocation,  \* how many times dataset_workflow was invoked
    faults,      \* how many calls the environment has failed so far
    call,        \* SpecDb: the Database method call in progress
    db_name,     \* dataset_workflow's local: what create_database returned
    returned,    \* what dataset_workflow returned: the pieces of the f-string
    pure,        \* SpecPure: the function applied, its arguments and result
    rng          \* how many values the seeded generator has given out

vars ==
    <<company, package, wf, pc, slots, db, invocation, faults, call,
      db_name, returned, pure, rng>>

----------------------------------------------------------------------------
(* Bounds of the model *)

MaxBU == 2
MaxDept == 2
MaxJobs == 2
MaxHeadcount == 6
MaxFaults == 1
MaxInvocations == 2
MaxId == 2
MaxAttempts == 3

(* Program constants *)

BatchSize == 5
DecimalMax == 9
NoneVal == -1

----------------------------------------------------------------------------
(* Domain model *)

\* (x or 0)
OrZero(x) == IF x = NoneVal THEN 0 ELSE x

TotalCompensation_NoBase(c) ==
    OrZero(c.annual_bonus_amount) + OrZero(c.annual_commission_amount)

\* Compensation.total_compensation
TotalCompensation(c) ==
    c.annual_base_salary
    + OrZero(c.annual_bonus_amount)
    + OrZero(c.annual_commission_amount)

----------------------------------------------------------------------------
(* Storage layer: the schema and one INSERT statement per table *)

\* A file without tables; a table that does not exist has no rows
EmptyDb ==
    [tables |-> {}, jobs |-> {}, business_units |-> {}, departments |-> {},
     employees |-> {}, compensations |-> {}]

\* The tables in the order create_tables creates them
TableOrder ==
    <<"business_units", "departments", "jobs", "employees", "compensations">>

AllTables == {TableOrder[n] : n \in DOMAIN TableOrder}

CreateTable_Replace(d, n) ==
    [d EXCEPT !.tables = @ \cup {TableOrder[n]}, ![TableOrder[n]] = {}]

\* The n-th statement of create_tables: CREATE TABLE IF NOT EXISTS; a table
\* that exists is left as it is
CreateTable(d, n) == [d EXCEPT !.tables = @ \cup {TableOrder[n]}]

\* The first n statements of create_tables
RECURSIVE CreateTablesUpTo(_, _)
CreateTablesUpTo(d, n) ==
    IF n = 0 THEN d ELSE CreateTable(CreateTablesUpTo(d, n - 1), n)

\* create_tables run to its end
CreateTables(d) == CreateTablesUpTo(d, Len(TableOrder))

Ids(table) == {r.id : r \in table}

\* The parameter tuples of the INSERT statements
JobRow(job) == [id |-> job.id]

BusinessUnitRow(bu) == [id |-> bu.id, director_job_id |-> bu.director.id]

DepartmentRow(dept, business_unit_id) ==
    [id |-> dept.id, manager_job_id |-> dept.manager.id,
     business_unit_id |-> business_unit_id]

EmployeeRow_Swapped(e) ==
    [id |-> e.id, job_id |-> e.job_id, department_id |-> e.business_unit_id,
     business_unit_id |-> e.department_id,
     education_level |-> e.education_level]

\* add_employee: the values bound to the INSERT
EmployeeRow(e) ==
    [id |-> e.id, job_id |-> e.job_id, department_id |-> e.department_id,
     business_unit_id |-> e.business_unit_id,
     education_level |-> e.education_level]

CompensationRow(c, employee_id) ==
    [id |-> c.id, employee_id |-> employee_id,
     annual_base_salary |-> c.annual_base_salary,
     annual_bonus_amount |-> c.annual_bonus_amount,
     annual_commission_amount |-> c.annual_commission_amount,
     total_compensation |-> TotalCompensation(c)]

\* PRIMARY KEY
PkViolation(table, row) == row.id \in Ids(table)

\* employees: FOREIGN KEY (job_id), (department_id), (business_unit_id)
EmployeeFkViolation(d, row) ==
    \/ row.job_id \notin Ids(d.jobs)
    \/ row.department_id # NoneVal /\ row.department_id \notin Ids(d.departments)
    \/ row.business_unit_id # NoneVal
       /\ row.business_unit_id \notin Ids(d.business_units)

\* employees: CHECK (exactly one of department_id, business_unit_id)
EmployeeCheckViolation(row) ==
    ~ \/ row.department_id # NoneVal /\ row.business_unit_id = NoneVal
      \/ row.department_id = NoneVal /\ row.business_unit_id # NoneVal

\* departments: FOREIGN KEY (business_unit_id)
DepartmentFkViolation(d, row) == row.business_unit_id \notin Ids(d.business_units)

\* compensations: FOREIGN KEY (employee_id)
CompensationFkViolation(d, row) == row.employee_id \notin Ids(d.employees)

\* A value that does not fit DECIMAL(12,2) fails the cast (a ConversionException)
DecimalOverflow(row) ==
    \/ row.annual_base_salary > DecimalMax
    \/ row.annual_bonus_amount > DecimalMax
    \/ row.annual_commission_amount > DecimalMax
    \/ row.total_compensation > DecimalMax

Result(d, status) == [db |-> d, status |-> status]

InsertJob(d, row) ==
    IF "jobs" \notin d.tables THEN Result(d, "OtherError")
    ELSE IF PkViolation(d.jobs, row) THEN Result(d, "ConstraintException")
    ELSE Result([d EXCEPT !.jobs = @ \cup {row}], "ok")

InsertBusinessUnit(d, row) ==
    IF "business_units" \notin d.tables THEN Result(d, "OtherError")
    ELSE IF PkViolation(d.business_units, row) THEN Result(d, "ConstraintException")
    ELSE Result([d EXCEPT !.business_units = @ \cup {row}], "ok")

InsertDepartment(d, row) ==
    IF "departments" \notin d.tables THEN Result(d, "OtherError")
    ELSE IF PkViolation(d.departments, row) \/ DepartmentFkViolation(d, row)
    THEN Result(d, "ConstraintException")
    ELSE Result([d EXCEPT !.departments = @ \cup {row}], "ok")

InsertEmployee_Upsert(d, row) ==
    IF "employees" \notin d.tables THEN Result(d, "OtherError")
    ELSE IF EmployeeFkViolation(d, row) \/ EmployeeCheckViolation(row)
    THEN Result(d, "ConstraintException")
    ELSE Result([d EXCEPT !.employees =
                    {r \in @ : r.id # row.id} \cup {row}], "ok")

InsertEmployee(d, row) ==
    IF "employees" \notin d.tables THEN Result(d, "OtherError")
    ELSE IF \/ PkViolation(d.employees, row)
            \/ EmployeeFkViolation(d, row)
            \/ EmployeeCheckViolation(row)
    THEN Result(d, "ConstraintException")
    ELSE Result([d EXCEPT !.employees = @ \cup {row}], "ok")

InsertCompensation(d, row) ==
    IF "compensations" \notin d.tables \/ DecimalOverflow(row) THEN Result(d, "OtherError")
    ELSE IF PkViolation(d.compensations, row) \/ CompensationFkViolation(d, row)
    THEN Result(d, "ConstraintException")
    ELSE Result([d EXCEPT !.compensations = @ \cup {row}], "ok")

----------------------------------------------------------------------------
(* Storage layer: the Database methods.  io is the environment's choice    *)
(* that duckdb.connect or the statement raises an error that is no         *)
(* ConstraintException (the file is locked, the disk is full).             *)

\* Database.add_job
AddJob(d, job, io) ==
    IF io THEN Result(d, "OtherError") ELSE InsertJob(d, JobRow(job))

\* Database.add_business_unit
AddBusinessUnit(d, bu, io) ==
    IF io THEN Result(d, "OtherError") ELSE InsertBusinessUnit(d, BusinessUnitRow(bu))

\* Database.add_department
AddDepartment(d, dept, business_unit_id, io) ==
    IF io THEN Result(d, "OtherError")
    ELSE InsertDepartment(d, DepartmentRow(dept, business_unit_id))

\* Database.add_employee, one turn of its while loop: newId is what
\* uuid.uuid1() returns if the except branch runs.  Status "retry" is the
\* continue statement; the employee object is mutated in place.
AddEmployeeAttempt(d, e, io, newId) ==
    IF io THEN [db |-> d, entity |-> e, status |-> "OtherError"]
    ELSE LET r == InsertEmployee(d, EmployeeRow(e)) IN
         IF r.status = "ConstraintException"
         THEN [db |-> d, entity |-> [e EXCEPT !.id = newId], status |-> "retry"]
         ELSE [db |-> r.db, entity |-> e, status |-> r.status]

\* Database.add_compensation, one turn of its while loop
AddCompensationAttempt(d, c, employee_id, io, newId) ==
    IF io THEN [db |-> d, entity |-> c, status |-> "OtherError"]
    ELSE LET r == InsertCompensation(d, CompensationRow(c, employee_id)) IN
         IF r.status = "ConstraintException"
         THEN [db |-> d, entity |-> [c EXCEPT !.id = newId], status |-> "retry"]
         ELSE [db |-> r.db, entity |-> c, status |-> r.status]

----------------------------------------------------------------------------
(* The Company a run works on.  Its identifiers are those the generation   *)
(* capability put into the structured output: distinct by default, or the  *)
(* same Job twice in a department when dup says so.                        *)

Job(id) == [id |-> id]

Headcounts == {1, 2, MaxHeadcount}

HeadLists == UNION {[1..n -> Headcounts] : n \in 0..MaxJobs}

DupKinds == {"none", "manager_listed", "job_twice"}

RECURSIVE SumSeq(_)
SumSeq(s) == IF s = <<>> THEN 0 ELSE Head(s) + SumSeq(Tail(s))

JobIdOf(b, d, j, dup) ==
    IF dup = "manager_listed" /\ j = 1 THEN 100 * b + 10 * d
    ELSE IF dup = "job_twice" /\ j = 2 THEN 100 * b + 10 * d + 1
    ELSE 100 * b + 10 * d + j

MakeDepartment(b, d, heads, dup) ==
    [id |-> 10 * b + d,
     manager |-> Job(100 * b + 10 * d),
     jobs |-> [j \in 1..Len(heads) |->
                  [job |-> Job(JobIdOf(b, d, j, dup)), headcount |-> heads[j]]]]

MakeBusinessUnit(b, nd, heads, dup) ==
    [id |-> b,
     director |-> Job(100 * b),
     departments |-> [d \in 1..nd |-> MakeDepartment(b, d, heads, dup)]]

MakeCompany(nb, nd, heads, dup) ==
    [business_units |-> [b \in 1..nb |-> MakeBusinessUnit(b, nd, heads, dup)]]

\* Companies of at most MaxHeadcount rank-and-file employees
Companies ==
    {MakeCompany(t[1], t[2], t[3], t[4]) :
        t \in {u \in (0..MaxBU) \X (0..MaxDept) \X HeadLists \X DupKinds :
                  u[1] * u[2] * SumSeq(u[3]) <= MaxHeadcount}}

\* What get_employee_compensation returns: the amounts, and the id when the
\* capability filled that field of the schema (NoneVal: default_factory).
\* The last package has a salary the DECIMAL(12,2) column cannot hold.
Packages ==
    {[id |-> NoneVal, annual_base_salary |-> 1,
      annual_bonus_amount |-> NoneVal, annual_commission_amount |-> NoneVal],
     [id |-> 1, annual_base_salary |-> 2,
      annual_bonus_amount |-> 0, annual_commission_amount |-> 1],
     [id |-> NoneVal, annual_base_salary |-> DecimalMax + 1,
      annual_bonus_amount |-> NoneVal, annual_commission_amount |-> NoneVal]}

NoCompensation ==
    [id |-> NoneVal, annual_base_salary |-> NoneVal,
     annual_bonus_amount |-> NoneVal, annual_commission_amount |-> NoneVal]

----------------------------------------------------------------------------
(* Workflow: navigation of the Company tree *)

BU(b) == company.business_units[b]

Dept(b, d) == BU(b).departments[d]

JobSpec(b, d, j) == Dept(b, d).jobs[j]

\* list(range(n))
Range(n) == [i \in 1..n |-> i - 1]

Min(a, b) == IF a < b THEN a ELSE b

BatchIterator_DropShort(dataset, batch_size) ==
    [m \in 1..(Len(dataset) \div batch_size) |->
        SubSeq(dataset, (m - 1) * batch_size + 1, m * batch_size)]

BatchIterator_Whole(dataset, batch_size) ==
    IF Len(dataset) = 0 THEN <<>> ELSE <<dataset>>

\* batch_iterator: one slice dataset[i : i + batch_size] for every i of
\* range(0, len(dataset), batch_size)
BatchIterator(dataset, batch_size) ==
    [m \in 1..((Len(dataset) + batch_size - 1) \div batch_size) |->
        SubSeq(dataset, (m - 1) * batch_size + 1,
               Min(m * batch_size, Len(dataset)))]

BatchesOf(b, d, j) == BatchIterator(Range(JobSpec(b, d, j).headcount), BatchSize)

At(stage, b, d, j, k) == [stage |-> stage, b |-> b, d |-> d, j |-> j, k |-> k]

\* for business_unit in company.business_units
NextBU(b) ==
    IF b < Len(company.business_units)
    THEN At("add_business_unit_to_db", b + 1, 0, 0, 0)
    ELSE At("return", 0, 0, 0, 0)

\* for department in business_unit.departments
NextDept(b, d) ==
    IF d < Len(BU(b).departments)
    THEN At("add_department_to_db", b, d + 1, 0, 0)
    ELSE NextBU(b)

\* for job_spec in department.jobs (a job without batches is passed over)
RECURSIVE NextJob(_, _, _)
NextJob(b, d, j) ==
    IF j < Len(Dept(b, d).jobs)
    THEN IF Len(BatchesOf(b, d, j + 1)) > 0 THEN At("batch", b, d, j + 1, 1)
         ELSE NextJob(b, d, j + 1)
    ELSE NextDept(b, d)

\* for batch in batch_iterator(...)
NextBatch(b, d, j, k) ==
    IF k < Len(BatchesOf(b, d, j)) THEN At("batch", b, d, j, k + 1)
    ELSE NextJob(b, d, j)

\* The statement that follows the expansions of the stage pc stands at
AfterExpansion(p) ==
    IF p.stage = "director" THEN NextDept(p.b, 0)
    ELSE IF p.stage = "manager" THEN NextJob(p.b, p.d, 0)
    ELSE NextBatch(p.b, p.d, p.j, p.k)

ExpansionStages == {"director", "manager", "batch"}

----------------------------------------------------------------------------
(* Workflow: identifiers.  uuid.uuid1() returns a value it has not         *)
(* returned before; the model names the n-th value drawn, in invocation    *)
(* inv, by the expansion of position pos.                                  *)

PosKey(b, d, j, n) == 1000 * b + 100 * d + 10 * j + n

Uuid1(pos, inv, n) == 100 * pos + 10 * inv + n

MaxDraws == MaxAttempts + 2

----------------------------------------------------------------------------
(* Workflow: the organizational tasks *)

\* add_business_unit_to_db: the Database calls it makes, in order
BusinessUnitInserts_Reversed(bu) ==
    << [op |-> "add_business_unit", entity |-> bu, arg |-> NoneVal],
       [op |-> "add_job", entity |-> bu.director, arg |-> NoneVal] >>

BusinessUnitInserts(bu) ==
    << [op |-> "add_job", entity |-> bu.director, arg |-> NoneVal],
       [op |-> "add_business_unit", entity |-> bu, arg |-> NoneVal] >>

\* add_department_to_db: the Database calls it makes, in order
DepartmentInserts(dept, business_unit_id) ==
    << [op |-> "add_job", entity |-> dept.manager, arg |-> NoneVal] >>
    \o [j \in 1..Len(dept.jobs) |->
          [op |-> "add_job", entity |-> dept.jobs[j].job, arg |-> NoneVal]]
    \o << [op |-> "add_department", entity |-> dept, arg |-> business_unit_id] >>

ApplyInsert(d, o, io) ==
    IF o.op = "add_job" THEN AddJob(d, o.entity, io)
    ELSE IF o.op = "add_business_unit" THEN AddBusinessUnit(d, o.entity, io)
    ELSE AddDepartment(d, o.entity, o.arg, io)

\* The calls of one task from the i-th on; an exception ends the task.  The
\* failAt-th call is the one the environment fails (0: none).
RECURSIVE RunInserts(_, _, _, _)
RunInserts(d, ops, i, failAt) ==
    IF i > Len(ops) THEN Result(d, "ok")
    ELSE LET r == ApplyInsert(d, ops[i], i = failAt) IN
         IF r.status = "ok" THEN RunInserts(r.db, ops, i + 1, failAt) ELSE r

----------------------------------------------------------------------------
(* Workflow: one generate_employee task *)

EducationFields_Null == [education_level |-> NoneVal]

\* What get_education_fields returns: both fields of the response are
\* required (education_field is filled together with education_level)
EducationFields == [education_level |-> 1]

\* The calls of the generator made for one employee, in the order the
\* arguments of generate_employee are evaluated: weighted_random_choice for
\* the generation (one call), get_birth_date (three), weighted_random_choice
\* for the gender and for the ethnicity (one each)
DrawsPerEmployee == 1 + 3 + 1 + 1

\* The demographics handed to generate_employee when the generator has
\* given out `first` values: each is named by the rank, in the sequence of
\* the seeded generator, of the value it is computed from
Demographics(first) ==
    [generation |-> first + 1,
     birth_date |-> <<first + 2, first + 3, first + 4>>,
     gender |-> first + 5, ethnicity |-> first + 6]

\* Employee(job_id=job.id, ..., education_level=None, education_field=None)
NewEmployee_ParentsSwapped(job, department_id, business_unit_id, id) ==
    [id |-> id, job_id |-> job.id, department_id |-> business_unit_id,
     business_unit_id |-> department_id, education_level |-> NoneVal]

\* Employee(job_id=job.id, department_id=..., business_unit_id=...,
\* education_level=None, education_field=None)
NewEmployee(job, department_id, business_unit_id, id) ==
    [id |-> id, job_id |-> job.id, department_id |-> department_id,
     business_unit_id |-> business_unit_id, education_level |-> NoneVal]

NewSlot_InsertFirst(job, department_id, business_unit_id, pos, inv, first) ==
    [pos |-> pos, pc |-> "add_employee",
     employee |-> [id |-> Uuid1(pos, inv, 0), job_id |-> job.id,
                   department_id |-> department_id,
                   business_unit_id |-> business_unit_id,
                   education_level |-> NoneVal] @@ Demographics(first),
     compensation |-> [NoCompensation EXCEPT !.id = Uuid1(pos, inv, 1),
                                             !.annual_base_salary = 1],
     draws |-> 2,
     saved |-> [education |-> NoneVal, compensation |-> NoCompensation]]

\* The task as launched: the Employee is constructed, the first sub-task is
\* due.  draws counts the uuid1 values the task has drawn; saved is what the
\* checkpointer holds of the task's completed sub-tasks.
NewSlot(job, department_id, business_unit_id, pos, inv, first) ==
    [pos |-> pos, pc |-> "get_education_fields",
     employee |-> NewEmployee(job, department_id, business_unit_id,
                              Uuid1(pos, inv, 0)) @@ Demographics(first),
     compensation |-> NoCompensation, draws |-> 1,
     saved |-> [education |-> NoneVal, compensation |-> NoCompensation]]

\* The Compensation built from the capability's answer
NewCompensation(pkg, drawn) ==
    [id |-> IF pkg.id = NoneVal THEN drawn ELSE pkg.id,
     annual_base_salary |-> pkg.annual_base_salary,
     annual_bonus_amount |-> pkg.annual_bonus_amount,
     annual_commission_amount |-> pkg.annual_commission_amount]

Fail(s) == [s EXCEPT !.pc = "failed"]

JoinOutcome_FirstOnly(ss) ==
    IF ss[1].pc = "done" THEN "done"
    ELSE IF ss[1].pc = "failed" THEN "raise" ELSE "wait"

JoinOutcome_SkipFailed(ss) ==
    IF \A i \in DOMAIN ss : ss[i].pc \in {"done", "failed"} THEN "done" ELSE "wait"

\* [future.result() for future in futures]: the results are awaited in list
\* order, and the first exception met is raised
JoinOutcome(ss) ==
    IF \A i \in DOMAIN ss : ss[i].pc = "done" THEN "done"
    ELSE IF \E i \in DOMAIN ss :
               /\ ss[i].pc = "failed"
               /\ \A j \in 1..(i - 1) : ss[j].pc = "done"
    THEN "raise"
    ELSE "wait"

InProgress(s) == s.pc \notin {"done", "failed"}

\* generate_employee run again on the checkpoint: a new Employee is built
\* from the arguments drawn anew, the sub-tasks that had completed return
\* their saved results
Restart(s, inv, first) ==
    LET d == Demographics(first)
        e == [s.employee EXCEPT !.id = Uuid1(s.pos, inv, 0),
                                !.education_level = s.saved.education,
                                !.generation = d.generation,
                                !.birth_date = d.birth_date,
                                !.gender = d.gender,
                                !.ethnicity = d.ethnicity]
    IN [s EXCEPT !.employee = e,
                 !.compensation = s.saved.compensation,
                 !.draws = 1,
                 !.pc = IF s.saved.education = NoneVal
                        THEN "get_education_fields"
                        ELSE IF s.saved.compensation = NoCompensation
                        THEN "get_employee_compensation"
                        ELSE "add_employee"]

----------------------------------------------------------------------------
(* Workflow: the steps of dataset_workflow and of the tasks it calls *)

Prologue_DatabaseFirst ==
    <<"create_database", "get_company_spec", "get_demographic_ratios">>

\* dataset_workflow: the three statements before the loop, in order
Prologue == <<"get_company_spec", "get_demographic_ratios", "create_database">>

\* Where dataset_workflow stands after the statement of the prologue
PrologueNext(stage) ==
    LET i == CHOOSE n \in DOMAIN Prologue : Prologue[n] = stage
    IN IF i < Len(Prologue) THEN At(Prologue[i + 1], 0, 0, 0, 0) ELSE NextBU(0)

\* Database.__init__: file_path
FilePath == "../../data/hr_database.duckdb"

\* What the call create_database() evaluates to: the function has no return
\* statement, the value is None, which an f-string formats as "None"
CreateDatabaseResult == "None"

IdlePure == [fn |-> "idle"]

IdleCall ==
    [op |-> "idle", status |-> "idle", entity |-> [id |-> NoneVal],
     arg |-> NoneVal, orig |-> NoneVal, pre |-> EmptyDb, attempts |-> 0,
     step |-> "idle"]

Init ==
    /\ company \in Companies
    /\ package \in Packages
    /\ wf = "running"
    /\ pc = At(Prologue[1], 0, 0, 0, 0)
    /\ slots = <<>>
    /\ db = EmptyDb
    /\ invocation = 1
    /\ faults = 0
    /\ call = IdleCall
    /\ db_name = "unbound"
    /\ returned = <<>>
    /\ pure = IdlePure
    /\ rng = 0

\* What the environment may do to a call: FALSE lets it through, TRUE fails
\* it (the capability gives up after its retries; the storage raises an
\* error that is no ConstraintException)
FaultChoices == IF faults < MaxFaults THEN BOOLEAN ELSE {FALSE}

Count(fault) == IF fault THEN faults + 1 ELSE faults

\* company = get_company_spec(user_input).result()
GetCompanySpec ==
    /\ wf = "running" /\ pc.stage = "get_company_spec"
    /\ \E fault \in FaultChoices :
          /\ faults' = Count(fault)
          /\ IF fault THEN wf' = "failed" /\ pc' = pc
             ELSE wf' = wf /\ pc' = PrologueNext(pc.stage)
    /\ UNCHANGED <<company, rng, db_name, returned, pure, package, slots, db, invocation, call>>

\* ratios = get_demographic_ratios(company).result()
GetDemographicRatios ==
    /\ wf = "running" /\ pc.stage = "get_demographic_ratios"
    /\ \E fault \in FaultChoices :
          /\ faults' = Count(fault)
          /\ IF fault THEN wf' = "failed" /\ pc' = pc
             ELSE wf' = wf /\ pc' = PrologueNext(pc.stage)
    /\ UNCHANGED <<company, rng, db_name, returned, pure, package, slots, db, invocation, call>>

\* db_name = create_database().result()
CreateDatabase ==
    /\ wf = "running" /\ pc.stage = "create_database"
    /\ \E fault \in FaultChoices :
          /\ faults' = Count(fault)
          /\ IF fault
             THEN /\ wf' = "failed" /\ pc' = pc /\ db_name' = db_name
                  /\ \E n \in 0..(Len(TableOrder) - 1) :
                        db' = CreateTablesUpTo(db, n)
             ELSE /\ wf' = wf /\ pc' = PrologueNext(pc.stage)
                  /\ db' = CreateTables(db)
                  /\ db_name' = CreateDatabaseResult
    /\ UNCHANGED <<company, rng, returned, pure, package, slots, invocation, call>>

\* The task of an organizational stage: its Database calls run in order, the
\* environment fails the failAt-th (0: none), an exception fails the run
OrganizationalTask(ops, next) ==
    \E failAt \in {0} \cup {n \in 1..Len(ops) : TRUE \in FaultChoices} :
        LET r == RunInserts(db, ops, 1, failAt) IN
        /\ db' = r.db
        /\ faults' = Count(r.status = "OtherError")
        /\ IF r.status = "ok" THEN wf' = wf /\ pc' = next
           ELSE wf' = "failed" /\ pc' = pc

\* add_business_unit_to_db(business_unit).result()
AddBusinessUnitToDb ==
    /\ wf = "running" /\ pc.stage = "add_business_unit_to_db"
    /\ OrganizationalTask(BusinessUnitInserts(BU(pc.b)),
                          At("director", pc.b, 0, 0, 0))
    /\ UNCHANGED <<company, rng, db_name, returned, pure, package, slots, invocation, call>>

\* add_department_to_db(department, str(business_unit.id)).result()
AddDepartmentToDb ==
    /\ wf = "running" /\ pc.stage = "add_department_to_db"
    /\ OrganizationalTask(DepartmentInserts(Dept(pc.b, pc.d), BU(pc.b).id),
                          At("manager", pc.b, pc.d, 0, 0))
    /\ UNCHANGED <<company, rng, db_name, returned, pure, package, slots, invocation, call>>

AfterDraws_Reseeded(first) == first

\* The generator after the arguments of one generate_employee call have
\* been evaluated
AfterDraws(first) == first + DrawsPerEmployee

\* The generate_employee calls the stage makes before it awaits a result
CallsOf(p) ==
    IF p.stage = "batch" THEN Len(BatchesOf(p.b, p.d, p.j)[p.k]) ELSE 1

\* generate_employee(job=business_unit.director, business_unit_id=...)
LaunchDirector ==
    /\ wf = "running" /\ pc.stage = "director" /\ slots = <<>>
    /\ slots' = << NewSlot(BU(pc.b).director, NoneVal, BU(pc.b).id,
                           PosKey(pc.b, 0, 0, 0), invocation, rng) >>
    /\ rng' = AfterDraws(rng)
    /\ UNCHANGED <<company, db_name, returned, pure, package, wf, pc, db, invocation, faults, call>>

\* generate_department: generate_employee(job=department.manager, ...)
LaunchManager ==
    /\ wf = "running" /\ pc.stage = "manager" /\ slots = <<>>
    /\ slots' = << NewSlot(Dept(pc.b, pc.d).manager, Dept(pc.b, pc.d).id, NoneVal,
                           PosKey(pc.b, pc.d, 0, 0), invocation, rng) >>
    /\ rng' = AfterDraws(rng)
    /\ UNCHANGED <<company, db_name, returned, pure, package, wf, pc, db, invocation, faults, call>>

\* generate_department: futures = [generate_employee(...) for _ in batch],
\* one iteration: the arguments of the next call are drawn and its task is
\* submitted, beside the tasks of the iterations before it, which run
LaunchBatch ==
    /\ wf = "running" /\ pc.stage = "batch" /\ Len(slots) < CallsOf(pc)
    /\ LET batch == BatchesOf(pc.b, pc.d, pc.j)[pc.k]
           i == Len(slots) + 1
       IN slots' = Append(slots,
                       NewSlot(JobSpec(pc.b, pc.d, pc.j).job,
                               Dept(pc.b, pc.d).id, NoneVal,
                               PosKey(pc.b, pc.d, pc.j, batch[i] + 1),
                               invocation, rng))
    /\ rng' = AfterDraws(rng)
    /\ UNCHANGED <<company, db_name, returned, pure, package, wf, pc, db, invocation, faults, call>>

\* generate_employee: education_fields = get_education_fields(...).result()
\* and the two assignments that follow
GetEducationFields(i) ==
    /\ slots[i].pc = "get_education_fields"
    /\ \E fault \in FaultChoices :
          LET s == slots[i] IN
          /\ faults' = Count(fault)
          /\ slots' = [slots EXCEPT ![i] =
                IF fault THEN Fail(s)
                ELSE [s EXCEPT !.employee.education_level =
                                   EducationFields.education_level,
                               !.saved.education = EducationFields.education_level,
                               !.pc = "get_employee_compensation"]]
    /\ UNCHANGED <<company, rng, db_name, returned, pure, package, wf, pc, db, invocation, call>>

\* generate_employee: compensation = get_employee_compensation(...).result()
GetEmployeeCompensation(i) ==
    /\ slots[i].pc = "get_employee_compensation"
    /\ \E fault \in FaultChoices :
          LET s == slots[i]
              c == NewCompensation(package, Uuid1(s.pos, invocation, s.draws))
          IN /\ faults' = Count(fault)
             /\ slots' = [slots EXCEPT ![i] =
                   IF fault THEN Fail(s)
                   ELSE [s EXCEPT !.compensation = c,
                                  !.saved.compensation = c,
                                  !.draws = IF package.id = NoneVal THEN @ + 1 ELSE @,
                                  !.pc = "add_employee"]]
    /\ UNCHANGED <<company, rng, db_name, returned, pure, package, wf, pc, db, invocation, call>>

\* add_employee_to_db: db.add_employee(employee), one turn of the loop
AddEmployeeStep(i) ==
    /\ slots[i].pc = "add_employee"
    /\ \E fault \in FaultChoices :
          LET s == slots[i]
              r == AddEmployeeAttempt(db, s.employee, fault,
                                      Uuid1(s.pos, invocation, s.draws))
          IN /\ r.status = "retry" => s.draws < MaxDraws
             /\ faults' = Count(fault)
             /\ db' = r.db
             /\ slots' = [slots EXCEPT ![i] =
                   IF r.status = "ok" THEN [s EXCEPT !.pc = "add_compensation"]
                   ELSE IF r.status = "retry"
                   THEN [s EXCEPT !.employee = r.entity, !.draws = @ + 1]
                   ELSE Fail(s)]
    /\ UNCHANGED <<company, rng, db_name, returned, pure, package, wf, pc, invocation, call>>

\* add_employee_to_db: db.add_compensation(compensation, str(employee.id)),
\* one turn of the loop
AddCompensationStep(i) ==
    /\ slots[i].pc = "add_compensation"
    /\ \E fault \in FaultChoices :
          LET s == slots[i]
              r == AddCompensationAttempt(db, s.compensation, s.employee.id,
                                          fault, Uuid1(s.pos, invocation, s.draws))
          IN /\ r.status = "retry" => s.draws < MaxDraws
             /\ faults' = Count(fault)
             /\ db' = r.db
             /\ slots' = [slots EXCEPT ![i] =
                   IF r.status = "ok" THEN [s EXCEPT !.pc = "done"]
                   ELSE IF r.status = "retry"
                   THEN [s EXCEPT !.compensation = r.entity, !.draws = @ + 1]
                   ELSE Fail(s)]
    /\ UNCHANGED <<company, rng, db_name, returned, pure, package, wf, pc, invocation, call>>

\* .result() on the expansions of the stage, once all its calls are made
Join ==
    /\ wf = "running" /\ pc.stage \in ExpansionStages
    /\ Len(slots) = CallsOf(pc)
    /\ JoinOutcome(slots) # "wait"
    /\ IF JoinOutcome(slots) = "done"
       THEN pc' = AfterExpansion(pc) /\ slots' = <<>> /\ wf' = wf
       ELSE wf' = "failed" /\ pc' = pc /\ slots' = slots
    /\ UNCHANGED <<company, rng, db_name, returned, pure, package, db, invocation, faults, call>>

\* return f'Dataset generation completed. Database: {db_name}'
Return ==
    /\ wf = "running" /\ pc.stage = "return"
    /\ wf' = "success"
    /\ returned' = <<"Dataset generation completed. Database: ", db_name>>
    /\ UNCHANGED <<company, rng, db_name, pure, package, pc, slots, db, invocation,
                   faults, call>>

\* The calls of generate_employee whose arguments are evaluated again when
\* the run is resumed: the body of dataset_workflow runs again from its
\* first statement (the directors up to the stage it failed at), and so
\* does the body of the generate_department that had not completed (its
\* manager and its batches up to the one it failed at); a task that had
\* completed returns its saved result and its body is not run
Replayed ==
    {PosKey(b, 0, 0, 0) :
        b \in 1..(IF pc.stage = "add_business_unit_to_db" THEN pc.b - 1 ELSE pc.b)}
    \cup (IF pc.stage = "manager" THEN {PosKey(pc.b, pc.d, 0, 0)}
          ELSE IF pc.stage = "batch"
          THEN {PosKey(pc.b, pc.d, 0, 0)}
               \cup UNION {{PosKey(pc.b, pc.d, j, n) :
                              n \in {m \in 1..JobSpec(pc.b, pc.d, j).headcount :
                                        PosKey(pc.b, pc.d, j, m)
                                            <= slots[Len(slots)].pos}} :
                           j \in DOMAIN Dept(pc.b, pc.d).jobs}
          ELSE {})

\* dataset_workflow invoked again after a failure, on the same checkpoint:
\* the tasks that completed are not run again, the task that failed is
Reinvoke ==
    /\ wf = "failed" /\ invocation < MaxInvocations
    /\ \A i \in DOMAIN slots : ~InProgress(slots[i])
    /\ invocation' = invocation + 1
    /\ wf' = "running"
    /\ slots' = [i \in DOMAIN slots |->
                    IF slots[i].pc = "failed"
                    THEN Restart(slots[i], invocation + 1,
                                 rng + DrawsPerEmployee *
                                    Cardinality({q \in Replayed : q < slots[i].pos}))
                    ELSE slots[i]]
    /\ rng' = rng + DrawsPerEmployee * Cardinality(Replayed)
    /\ UNCHANGED <<company, db_name, returned, pure, package, pc, db, faults, call>>

Next ==
    \/ GetCompanySpec
    \/ GetDemographicRatios
    \/ CreateDatabase
    \/ AddBusinessUnitToDb
    \/ AddDepartmentToDb
    \/ LaunchDirector
    \/ LaunchManager
    \/ LaunchBatch
    \/ \E i \in DOMAIN slots : GetEducationFields(i)
    \/ \E i \in DOMAIN slots : GetEmployeeCompensation(i)
    \/ \E i \in DOMAIN slots : AddEmployeeStep(i)
    \/ \E i \in DOMAIN slots : AddCompensationStep(i)
    \/ Join
    \/ Return

Spec == Init /\ [][Next]_vars

NextResume == Next \/ Reinvoke

SpecResume == Init /\ [][NextResume]_vars

----------------------------------------------------------------------------
(* SpecDb: a caller makes one call of a Database method, with arguments of  *)
(* its choosing, on a database that earlier runs have populated.            *)

IdPool == 1..MaxId

\* uuid.uuid1() in the except branch: a value that differs from the one it
\* replaces; it may again be the key of a row
RegeneratedIds(old) == (1..(MaxId + 1)) \ {old}

MinOf(S) == CHOOSE x \in S : \A y \in S : x <= y

\* A database holding the organizational rows 1..k, employees E of job 1
\* (odd ids on business unit 1, even ids on department 1) and compensations
\* C, all of the least employee
PopulatedDb(k, E, C) ==
    [tables |-> AllTables,
     jobs |-> {[id |-> x] : x \in 1..k},
     business_units |-> {[id |-> x, director_job_id |-> x] : x \in 1..k},
     departments |->
        {[id |-> x, manager_job_id |-> x, business_unit_id |-> x] : x \in 1..k},
     employees |->
        {[id |-> x, job_id |-> 1,
          department_id |-> IF x % 2 = 0 THEN 1 ELSE NoneVal,
          business_unit_id |-> IF x % 2 = 0 THEN NoneVal ELSE 1,
          education_level |-> 1] : x \in E},
     compensations |->
        {CompensationRow([id |-> x, annual_base_salary |-> 1,
                          annual_bonus_amount |-> NoneVal,
                          annual_commission_amount |-> NoneVal], MinOf(E)) :
            x \in C}]

PopulatedDbs ==
    {PopulatedDb(t[1], t[2], t[3]) :
        t \in {u \in (0..MaxId) \X (SUBSET IdPool) \X (SUBSET IdPool) :
                  /\ u[2] # {} => u[1] >= 1
                  /\ u[3] # {} => u[2] # {}}}

\* The arguments a caller may pass
CallerJobs == {Job(x) : x \in IdPool}

CallerBusinessUnits ==
    {[id |-> x, director |-> Job(1), departments |-> <<>>] : x \in IdPool}

CallerDepartments ==
    {[id |-> x, manager |-> Job(1), jobs |-> <<>>] : x \in IdPool}

CallerEmployees ==
    [id : IdPool, job_id : IdPool, department_id : IdPool \cup {NoneVal},
     business_unit_id : IdPool \cup {NoneVal}, education_level : {1}]

CallerCompensations ==
    [id : IdPool, annual_base_salary : {1, DecimalMax + 1},
     annual_bonus_amount : {NoneVal, 0}, annual_commission_amount : {NoneVal, 1}]

InitDb ==
    /\ db \in PopulatedDbs \cup {EmptyDb}
    /\ call = IdleCall
    /\ company = MakeCompany(0, 0, <<>>, "none")
    /\ package \in {p \in Packages : p.id = NoneVal}
    /\ wf = "idle"
    /\ pc = At("idle", 0, 0, 0, 0)
    /\ slots = <<>>
    /\ invocation = 0
    /\ faults = 0
    /\ db_name = "unbound"
    /\ returned = <<>>
    /\ pure = IdlePure
    /\ rng = 0

\* The caller enters the method: pre is the database as the call finds it,
\* orig the identifier the entity came with, step the Database method that
\* runs first
Enter(op, entity, arg) ==
    /\ call.op = "idle"
    /\ call' = [op |-> op, status |-> "running", entity |-> entity, arg |-> arg,
                orig |-> entity.id, pre |-> db, attempts |-> 0,
                step |-> IF op = "add_employee_to_db" THEN "add_employee" ELSE op]
    /\ UNCHANGED <<company, rng, db_name, returned, pure, package, wf, pc, slots, db, invocation, faults>>

CallAddJob == \E job \in CallerJobs : Enter("add_job", job, NoneVal)

CallAddBusinessUnit ==
    \E bu \in CallerBusinessUnits : Enter("add_business_unit", bu, NoneVal)

CallAddDepartment ==
    \E dept \in CallerDepartments, business_unit_id \in IdPool :
        Enter("add_department", dept, business_unit_id)

CallAddEmployee == \E e \in CallerEmployees : Enter("add_employee", e, NoneVal)

CallAddCompensation ==
    \E c \in CallerCompensations, employee_id \in IdPool :
        Enter("add_compensation", c, employee_id)

\* The employees and compensations generate_employee hands to
\* add_employee_to_db: of job 1, with the amounts of the first package
TaskEmployees == {e \in CallerEmployees : e.job_id = 1}

TaskCompensations ==
    {c \in CallerCompensations :
        /\ c.annual_base_salary = 1
        /\ c.annual_bonus_amount = NoneVal
        /\ c.annual_commission_amount = NoneVal}

CallAddEmployeeToDb ==
    \E e \in TaskEmployees, c \in TaskCompensations :
        Enter("add_employee_to_db", e, c)

CallCreateTables == Enter("create_tables", [id |-> NoneVal], NoneVal)

\* create_tables: one of its five statements (attempts counts them); the
\* statement's exception, if any, is the caller's, and the tables created
\* by the statements before it stay
ExecCreateTables ==
    /\ call.status = "running" /\ call.op = "create_tables"
    /\ \E io \in BOOLEAN :
          IF io
          THEN /\ db' = db
               /\ call' = [call EXCEPT !.status = "OtherError", !.attempts = @ + 1]
          ELSE /\ db' = CreateTable(db, call.attempts + 1)
               /\ call' = [call EXCEPT
                              !.status = IF call.attempts + 1 = Len(TableOrder)
                                         THEN "ok" ELSE "running",
                              !.attempts = @ + 1]
    /\ UNCHANGED <<company, rng, db_name, returned, pure, package, wf, pc, slots,
                   invocation, faults>>

\* add_job, add_business_unit, add_department: the one INSERT of the method;
\* its exception, if any, is the caller's
ExecPlain ==
    /\ call.status = "running"
    /\ call.op \in {"add_job", "add_business_unit", "add_department"}
    /\ \E io \in BOOLEAN :
          LET r == ApplyInsert(db, call, io) IN
          /\ db' = r.db
          /\ call' = [call EXCEPT !.status = r.status, !.attempts = @ + 1]
    /\ UNCHANGED <<company, rng, db_name, returned, pure, package, wf, pc, slots, invocation, faults>>

\* add_employee: one turn of the while loop
ExecAddEmployee ==
    /\ call.status = "running" /\ call.op = "add_employee"
    /\ call.attempts < MaxAttempts
    /\ \E io \in BOOLEAN, newId \in RegeneratedIds(call.entity.id) :
          LET r == AddEmployeeAttempt(db, call.entity, io, newId) IN
          /\ db' = r.db
          /\ call' = [call EXCEPT
                         !.status = IF r.status = "retry" THEN "running"
                                    ELSE r.status,
                         !.entity = r.entity, !.attempts = @ + 1]
    /\ UNCHANGED <<company, rng, db_name, returned, pure, package, wf, pc, slots, invocation, faults>>

\* add_compensation: one turn of the while loop
ExecAddCompensation ==
    /\ call.status = "running" /\ call.op = "add_compensation"
    /\ call.attempts < MaxAttempts
    /\ \E io \in BOOLEAN, newId \in RegeneratedIds(call.entity.id) :
          LET r == AddCompensationAttempt(db, call.entity, call.arg, io, newId) IN
          /\ db' = r.db
          /\ call' = [call EXCEPT
                         !.status = IF r.status = "retry" THEN "running"
                                    ELSE r.status,
                         !.entity = r.entity, !.attempts = @ + 1]
    /\ UNCHANGED <<company, rng, db_name, returned, pure, package, wf, pc, slots, invocation, faults>>

EmployeeIdArgument_AtEntry(employee, orig) == orig

\* str(employee.id), evaluated after db.add_employee(employee) has returned:
\* the attribute of the object that add_employee mutated in place
EmployeeIdArgument(employee, orig) == employee.id

\* add_employee_to_db: db.add_employee(employee), then
\* db.add_compensation(compensation, str(employee.id)); one turn of the loop
\* of the method that is running
ExecAddEmployeeToDb ==
    /\ call.status = "running" /\ call.op = "add_employee_to_db"
    /\ call.attempts < 2 * MaxAttempts
    /\ \E io \in BOOLEAN :
          IF call.step = "add_employee"
          THEN \E newId \in RegeneratedIds(call.entity.id) :
                  LET r == AddEmployeeAttempt(db, call.entity, io, newId) IN
                  /\ db' = r.db
                  /\ call' = [call EXCEPT
                                 !.status = IF r.status \in {"retry", "ok"}
                                            THEN "running" ELSE r.status,
                                 !.step = IF r.status = "ok"
                                          THEN "add_compensation" ELSE @,
                                 !.entity = r.entity, !.attempts = @ + 1]
          ELSE \E newId \in RegeneratedIds(call.arg.id) :
                  LET r == AddCompensationAttempt(
                               db, call.arg,
                               EmployeeIdArgument(call.entity, call.orig),
                               io, newId) IN
                  /\ db' = r.db
                  /\ call' = [call EXCEPT
                                 !.status = IF r.status = "retry" THEN "running"
                                            ELSE r.status,
                                 !.arg = r.entity, !.attempts = @ + 1]
    /\ UNCHANGED <<company, rng, db_name, returned, pure, package, wf, pc, slots,
                   invocation, faults>>

NextDb ==
    \/ CallAddJob
    \/ CallAddBusinessUnit
    \/ CallAddDepartment
    \/ CallAddEmployee
    \/ CallAddCompensation
    \/ CallCreateTables
    \/ CallAddEmployeeToDb
    \/ ExecPlain
    \/ ExecAddEmployee
    \/ ExecAddCompensation
    \/ ExecCreateTables
    \/ ExecAddEmployeeToDb

SpecDb == InitDb /\ [][NextDb]_vars

----------------------------------------------------------------------------
(* Vocabulary of the properties *)

\* The position whose expansion drew the identifier
PosOfUuid(id) == id \div 100

\* The positions of the Company: directors, managers, rank and file
Positions ==
    {PosKey(b, 0, 0, 0) : b \in DOMAIN company.business_units}
    \cup UNION {{PosKey(b, d, 0, 0) : d \in DOMAIN BU(b).departments} :
                  b \in DOMAIN company.business_units}
    \cup UNION {UNION {UNION {{PosKey(b, d, j, n) :
                                 n \in 1..JobSpec(b, d, j).headcount} :
                              j \in DOMAIN Dept(b, d).jobs} :
                       d \in DOMAIN BU(b).departments} :
                  b \in DOMAIN company.business_units}

DepartmentHeadcount(dept) ==
    1 + SumSeq([j \in DOMAIN dept.jobs |-> dept.jobs[j].headcount])

BusinessUnitHeadcount(bu) ==
    1 + SumSeq([d \in DOMAIN bu.departments |->
                   DepartmentHeadcount(bu.departments[d])])

CompanyHeadcount ==
    SumSeq([b \in DOMAIN company.business_units |->
               BusinessUnitHeadcount(company.business_units[b])])

CompensationsOf(e) == {c \in db.compensations : c.employee_id = e.id}

EmployeesAt(p) == {e \in db.employees : PosOfUuid(e.id) = p}

----------------------------------------------------------------------------
(* Properties of the workflow *)

\* C1: once an employee expansion has ended, by success or by a failure at
\* any step, every employee row it wrote has a compensation row referencing
\* it (insert_employee and insert_compensation take effect together).
C1_NoPartialEmployee ==
    \A i \in DOMAIN slots :
        ~InProgress(slots[i]) =>
            \A e \in EmployeesAt(slots[i].pos) : CompensationsOf(e) # {}

\* C2: when a run has completed successfully, every employee row is
\* referenced by exactly one compensation row, whose total_compensation is
\* at least its annual_base_salary.
C2_OneCompensationPerEmployee ==
    wf = "success" =>
        \A e \in db.employees :
            /\ Cardinality(CompensationsOf(e)) = 1
            /\ \A c \in CompensationsOf(e) :
                  c.total_compensation >= c.annual_base_salary

C2_Witness ==
    /\ wf = "success"
    /\ Cardinality(db.employees) > BatchSize
    /\ \E c \in db.compensations : c.total_compensation > c.annual_base_salary

\* C3: when a run has completed successfully, the employee rows number the
\* Company's total headcount (per business unit 1 for the director plus, per
\* department, 1 for the manager plus the headcounts of its jobs), one row
\* for every position, none missing and none twice.
C3_HeadcountWritten ==
    wf = "success" =>
        /\ Cardinality(db.employees) = CompanyHeadcount
        /\ \A p \in Positions : Cardinality(EmployeesAt(p)) = 1

C3_Witness ==
    /\ wf = "success"
    /\ \E b \in DOMAIN company.business_units :
          \E d \in DOMAIN BU(b).departments :
             \E j \in DOMAIN Dept(b, d).jobs :
                JobSpec(b, d, j).headcount > BatchSize

\* C4: in every state of a run each reference names a row that is present:
\* a department's business unit and manager job, a business unit's director
\* job, an employee's job and parent, a compensation's employee; and the
\* write a task is about to issue finds its parents inserted.
C4_InsertBeforeReference ==
    /\ \A r \in db.departments :
          /\ r.business_unit_id \in Ids(db.business_units)
          /\ r.manager_job_id \in Ids(db.jobs)
    /\ \A r \in db.business_units : r.director_job_id \in Ids(db.jobs)
    /\ \A r \in db.employees :
          /\ r.job_id \in Ids(db.jobs)
          /\ r.department_id # NoneVal => r.department_id \in Ids(db.departments)
          /\ r.business_unit_id # NoneVal
                => r.business_unit_id \in Ids(db.business_units)
    /\ \A r \in db.compensations : r.employee_id \in Ids(db.employees)
    /\ pc.stage = "add_department_to_db" => BU(pc.b).id \in Ids(db.business_units)
    /\ \A i \in DOMAIN slots :
          /\ slots[i].pc = "add_employee"
                => ~EmployeeFkViolation(db, EmployeeRow(slots[i].employee))
          /\ slots[i].pc = "add_compensation"
                => slots[i].employee.id \in Ids(db.employees)

C4_Witness ==
    /\ db.departments # {}
    /\ \E c \in db.compensations :
          \E e \in db.employees :
             c.employee_id = e.id /\ e.department_id # NoneVal
    /\ \E i \in DOMAIN slots : slots[i].pc = "add_compensation"

OrganizationalRows(d) == <<d.jobs, d.business_units, d.departments>>

\* C9: no skip-and-continue.  While an expansion has failed the run neither
\* succeeds nor moves on, and the failure stays; once the orchestrator has
\* observed the failure the run stays failed, nothing further is started and
\* no organizational row is inserted.
C9_NoSkipAndContinue ==
    [][ /\ \A i \in DOMAIN slots :
              slots[i].pc = "failed" =>
                  /\ wf' # "success"
                  /\ pc' = pc
                  /\ i \in DOMAIN slots' /\ slots'[i].pc = "failed"
        /\ wf = "failed" =>
              /\ wf' = "failed"
              /\ pc' = pc
              /\ DOMAIN slots' = DOMAIN slots
              /\ \A i \in DOMAIN slots : slots'[i].pos = slots[i].pos
              /\ OrganizationalRows(db') = OrganizationalRows(db)
      ]_vars

C9_Witness ==
    /\ wf = "failed"
    /\ Len(slots) > 1
    /\ \E i \in DOMAIN slots : slots[i].pc = "failed"
    /\ \E i \in DOMAIN slots : slots[i].pc = "done"

\* C10: after a failed run is invoked again and succeeds, no insert was made
\* twice: every position of the Company has exactly one employee row.
C10_ResumeWithoutDuplicates ==
    wf = "success" =>
        /\ \A p \in Positions : Cardinality(EmployeesAt(p)) = 1
        /\ Cardinality(db.employees) = CompanyHeadcount

----------------------------------------------------------------------------
(* Properties of the storage layer *)

\* The table the call in progress inserts into
TableOf(d) ==
    IF call.op = "add_job" THEN d.jobs
    ELSE IF call.op = "add_business_unit" THEN d.business_units
    ELSE IF call.op = "add_department" THEN d.departments
    ELSE IF call.op = "add_employee" THEN d.employees
    ELSE d.compensations

\* The row the call in progress inserts, with the entity as it now is
RowOf ==
    IF call.op = "add_employee" THEN EmployeeRow(call.entity)
    ELSE CompensationRow(call.entity, call.arg)

Collides == call.op # "idle" /\ call.orig \in Ids(TableOf(call.pre))

\* The call came with a reference that names no row
DanglingReference ==
    \/ call.op = "add_department" /\ call.arg \notin Ids(call.pre.business_units)
    \/ call.op = "add_employee"
       /\ EmployeeFkViolation(call.pre, EmployeeRow(call.entity))
    \/ call.op = "add_compensation" /\ call.arg \notin Ids(call.pre.employees)

Raised == call.status \in {"ConstraintException", "OtherError"}

\* C5: insert_employee of an Employee with both parents set, or neither,
\* fails: once the statement has been attempted the call has ended with an
\* error, and no employee row is written.
C5_BothOrNeitherFails ==
    ( /\ call.op = "add_employee"
      /\ EmployeeCheckViolation(EmployeeRow(call.entity))
      /\ call.attempts >= 1 )
    => Raised /\ db.employees = call.pre.employees

\* C6: a foreign-key violation in an insert reaches the caller as an error
\* and is not retried; an insert goes round again only after a primary-key
\* collision and nothing else.
C6_ForeignKeyIsFatal ==
    call.attempts >= 1 =>
        /\ DanglingReference => Raised
        /\ (call.status = "running" /\ call.attempts = 1) =>
              /\ Collides
              /\ ~DanglingReference
              /\ call.op = "add_employee"
                    => ~EmployeeCheckViolation(EmployeeRow(call.entity))

\* C7: insert_employee and insert_compensation of an entity whose id is
\* already a key of the table: no constraint error reaches the caller, and
\* when the call returns the entity is stored under another id, one that was
\* no key before, next to the rows that were there, which are unchanged.
C7_CollisionStoresUnderFreshId ==
    (call.op \in {"add_employee", "add_compensation"} /\ Collides) =>
        /\ call.status # "ConstraintException"
        /\ call.status = "ok" =>
              /\ call.entity.id # call.orig
              /\ call.entity.id \notin Ids(TableOf(call.pre))
              /\ TableOf(db) = TableOf(call.pre) \cup {RowOf}

C7_Witness ==
    /\ call.op = "add_employee" /\ Collides
    /\ call.status = "ok"
    /\ call.attempts > 2

\* C8: insert_job, insert_business_unit and insert_department of an entity
\* whose id is already a key of the table recover by regenerating the id:
\* no error is raised to the caller.
C8_PlainInsertsRecover ==
    ( /\ call.op \in {"add_job", "add_business_unit", "add_department"}
      /\ Collides /\ ~DanglingReference
      /\ call.attempts >= 1 )
    => call.status # "ConstraintException"

----------------------------------------------------------------------------
(* Concurrency of the expansions *)

SlotsInProgress == {i \in DOMAIN slots : InProgress(slots[i])}

\* The coordinates a position key was built from
PosBU(pos) == pos \div 1000
PosDept(pos) == (pos \div 100) % 10
PosJob(pos) == (pos \div 10) % 10
PosIndex(pos) == pos % 10

\* Director (of a business unit) or manager (of a department)
IsHead(pos) == PosIndex(pos) = 0

SameBatch(p, q) ==
    /\ PosBU(p) = PosBU(q) /\ PosDept(p) = PosDept(q) /\ PosJob(p) = PosJob(q)
    /\ ~IsHead(p) /\ ~IsHead(q)
    /\ (PosIndex(p) - 1) \div BatchSize = (PosIndex(q) - 1) \div BatchSize

OrganizationalStages ==
    {"create_database", "add_business_unit_to_db", "add_department_to_db"}

\* C11: at any moment at most 5 expansions are in progress, and any two in
\* progress together are of the same batch of the same job of the same
\* department; a director's or a manager's expansion runs alone, and while
\* the orchestrator stands at an organizational insert no expansion runs.
C11_OneBatchAtATime ==
    /\ Cardinality(SlotsInProgress) <= BatchSize
    /\ \A i, k \in SlotsInProgress :
          i # k => SameBatch(slots[i].pos, slots[k].pos)
    /\ (wf = "running" /\ pc.stage \in OrganizationalStages)
          => SlotsInProgress = {}

C11_Witness ==
    /\ Cardinality(SlotsInProgress) = BatchSize
    /\ \E i \in SlotsInProgress : slots[i].pc = "add_compensation"
    /\ \E i \in SlotsInProgress : slots[i].pc = "get_education_fields"

----------------------------------------------------------------------------
(* The value the run returns *)

\* C12: when the run has succeeded, the summary it returned names the
\* storage location: the path of the database file the rows were written to
\* is one of the pieces of the returned string.
C12_SummaryNamesDatabase ==
    wf = "success" => \E i \in DOMAIN returned : returned[i] = FilePath

----------------------------------------------------------------------------
(* Order of the first steps *)

\* C13: nothing is done to the storage until get_company_spec and then
\* get_demographic_ratios have both returned: while the run stands at
\* either of them, or has failed there, or stands at create_database with
\* both results in hand, the database is as it was before the run.
C13_GenerateBeforeStorage ==
    /\ pc.stage \in {"get_company_spec", "get_demographic_ratios"}
          => db = EmptyDb
    /\ (wf = "running" /\ pc.stage = "create_database") => db = EmptyDb

C13_Witness ==
    /\ wf = "failed"
    /\ pc.stage = "get_demographic_ratios"
    /\ db = EmptyDb
    /\ faults = 1

----------------------------------------------------------------------------
(* Harness of the pure functions: one function applied to arguments *)

MaxLen == 5
MaxBatchSize == 6

Items == {0, 1}

\* The lists handed to batch_iterator
Datasets == UNION {[1..n -> Items] : n \in 0..MaxLen}

InitPure ==
    /\ pure = IdlePure
    /\ rng = 0
    /\ db = EmptyDb
    /\ call = IdleCall
    /\ company = MakeCompany(0, 0, <<>>, "none")
    /\ package = NoCompensation
    /\ wf = "idle"
    /\ pc = At("idle", 0, 0, 0, 0)
    /\ slots = <<>>
    /\ invocation = 0
    /\ faults = 0
    /\ db_name = "unbound"
    /\ returned = <<>>

\* list(batch_iterator(dataset, batch_size))
ApplyBatchIterator ==
    /\ pure.fn = "idle"
    /\ \E dataset \in Datasets, batch_size \in 1..MaxBatchSize :
          pure' = [fn |-> "batch_iterator", dataset |-> dataset,
                   batch_size |-> batch_size,
                   result |-> BatchIterator(dataset, batch_size)]
    /\ UNCHANGED <<company, rng, package, wf, pc, slots, db, invocation, faults,
                   call, db_name, returned>>

RECURSIVE Flatten(_)
Flatten(batches) ==
    IF Len(batches) = 0 THEN <<>> ELSE Head(batches) \o Flatten(Tail(batches))

\* C14: the batches of batch_iterator(items, n), n >= 1, concatenated in
\* order are the items; every batch but the last has n elements, the last
\* has between 1 and n; an empty list gives no batch.
C14_BatchesPartitionItems ==
    pure.fn = "batch_iterator" =>
        LET r == pure.result IN
        /\ Flatten(r) = pure.dataset
        /\ \A m \in DOMAIN r :
              /\ Len(r[m]) >= 1 /\ Len(r[m]) <= pure.batch_size
              /\ m < Len(r) => Len(r[m]) = pure.batch_size
        /\ Len(pure.dataset) = 0 => Len(r) = 0

C14_Witness ==
    /\ pure.fn = "batch_iterator"
    /\ Len(pure.result) = 3
    /\ Len(pure.result[3]) = 1
    /\ pure.batch_size = 2

----------------------------------------------------------------------------
(* Dates and generations *)

Generations == {"BABY_BOOMER", "GEN_X", "MILLENNIAL", "GEN_Z"}

\* datetime.date(year, month, day)
Date(year, month, day) == [year |-> year, month |-> month, day |-> day]

\* a < b on datetime.date
DateLess(a, b) ==
    \/ a.year < b.year
    \/ a.year = b.year /\ a.month < b.month
    \/ a.year = b.year /\ a.month = b.month /\ a.day < b.day

IsLeap(y) == (y % 4 = 0 /\ y % 100 # 0) \/ y % 400 = 0

DaysIn(y, m) ==
    IF m = 2 THEN (IF IsLeap(y) THEN 29 ELSE 28)
    ELSE IF m \in {4, 6, 9, 11} THEN 30 ELSE 31

\* The dates datetime.date accepts; any other raises ValueError
ValidDate(d) ==
    /\ d.year >= 1 /\ d.year <= 9999
    /\ d.month \in 1..12
    /\ d.day >= 1 /\ d.day <= DaysIn(d.year, d.month)

YearRange_LateGenZ(generation) ==
    IF generation = "BABY_BOOMER" THEN <<1946, 1964>>
    ELSE IF generation = "GEN_X" THEN <<1965, 1980>>
    ELSE IF generation = "MILLENNIAL" THEN <<1981, 1996>>
    ELSE <<1997, 2016>>

\* get_birth_date: start_year, end_year of the generation
YearRange(generation) ==
    IF generation = "BABY_BOOMER" THEN <<1946, 1964>>
    ELSE IF generation = "GEN_X" THEN <<1965, 1980>>
    ELSE IF generation = "MILLENNIAL" THEN <<1981, 1996>>
    ELSE <<1997, 2012>>

\* get_birth_date with the three values random.randint returned
GetBirthDate(generation, year, month, day) ==
    [raised |-> IF generation \notin Generations
                     \/ ~ValidDate(Date(year, month, day))
                THEN "ValueError" ELSE "nothing",
     value |-> Date(year, month, day)]

Generation_Inclusive(birth_date) ==
    IF ~DateLess(Date(1965, 1, 1), birth_date) THEN "BABY_BOOMER"
    ELSE IF ~DateLess(Date(1981, 1, 1), birth_date) THEN "GEN_X"
    ELSE IF ~DateLess(Date(1997, 1, 1), birth_date) THEN "MILLENNIAL"
    ELSE IF ~DateLess(Date(2016, 1, 1), birth_date) THEN "GEN_Z"
    ELSE "ValueError"

\* Employee.generation
Generation(birth_date) ==
    IF DateLess(birth_date, Date(1965, 1, 1)) THEN "BABY_BOOMER"
    ELSE IF DateLess(birth_date, Date(1981, 1, 1)) THEN "GEN_X"
    ELSE IF DateLess(birth_date, Date(1997, 1, 1)) THEN "MILLENNIAL"
    ELSE IF DateLess(birth_date, Date(2016, 1, 1)) THEN "GEN_Z"
    ELSE "ValueError"

\* get_birth_date(generation): the draws are random.randint(start_year,
\* end_year), random.randint(1, 12), random.randint(1, 28)
ApplyGetBirthDate ==
    /\ pure.fn = "idle"
    /\ \E generation \in Generations :
          \E year \in YearRange(generation)[1]..YearRange(generation)[2],
             month \in 1..12, day \in 1..28 :
             pure' = [fn |-> "get_birth_date", generation |-> generation,
                      result |-> GetBirthDate(generation, year, month, day)]
    /\ UNCHANGED <<company, rng, package, wf, pc, slots, db, invocation, faults,
                   call, db_name, returned>>

\* The years of the birth dates tried on Employee.generation
BirthYears ==
    {1900, 1945, 1946, 1964, 1965, 1966, 1980, 1981, 1996, 1997, 2000, 2012,
     2015, 2016, 2017, 2100}

BirthDates ==
    {d \in {Date(y, m, n) : y \in BirthYears, m \in 1..12, n \in 1..31} :
        ValidDate(d)}

\* employee.generation of an Employee with the birth_date
ApplyGeneration ==
    /\ pure.fn = "idle"
    /\ \E birth_date \in BirthDates :
          pure' = [fn |-> "generation", birth_date |-> birth_date,
                   result |-> Generation(birth_date)]
    /\ UNCHANGED <<company, rng, package, wf, pc, slots, db, invocation, faults,
                   call, db_name, returned>>

\* C15: whatever the draws, get_birth_date(G) is a valid date with the year
\* in G's range (1946-1964, 1965-1980, 1981-1996, 1997-2012), the month in
\* 1..12 and the day in 1..28, and Employee.generation of it is G.
C15_BirthDateInGeneration ==
    pure.fn = "get_birth_date" =>
        LET d == pure.result.value
            G == pure.generation
        IN /\ pure.result.raised = "nothing"
           /\ ValidDate(d)
           /\ G = "BABY_BOOMER" => d.year \in 1946..1964
           /\ G = "GEN_X" => d.year \in 1965..1980
           /\ G = "MILLENNIAL" => d.year \in 1981..1996
           /\ G = "GEN_Z" => d.year \in 1997..2012
           /\ d.month \in 1..12 /\ d.day \in 1..28
           /\ Generation(d) = G

C15_Witness ==
    /\ pure.fn = "get_birth_date"
    /\ pure.generation = "GEN_Z"
    /\ pure.result.value = Date(2012, 12, 28)

\* birth_date <= limit
DateAtMost(a, b) == ~DateLess(b, a)

\* C17: the generation is Baby Boomer before 1965-01-01, Gen X from
\* 1965-01-01 to 1980-12-31, Millennial from 1981-01-01 to 1996-12-31, Gen Z
\* from 1997-01-01 to 2015-12-31, and an error from 2016-01-01 on.
C17_GenerationOfBirthDate ==
    pure.fn = "generation" =>
        LET d == pure.birth_date
            g == pure.result
        IN /\ DateLess(d, Date(1965, 1, 1)) => g = "BABY_BOOMER"
           /\ (DateAtMost(Date(1965, 1, 1), d) /\ DateAtMost(d, Date(1980, 12, 31)))
                 => g = "GEN_X"
           /\ (DateAtMost(Date(1981, 1, 1), d) /\ DateAtMost(d, Date(1996, 12, 31)))
                 => g = "MILLENNIAL"
           /\ (DateAtMost(Date(1997, 1, 1), d) /\ DateAtMost(d, Date(2015, 12, 31)))
                 => g = "GEN_Z"
           /\ DateAtMost(Date(2016, 1, 1), d) => g = "ValueError"

C17_Witness ==
    /\ pure.fn = "generation"
    /\ pure.birth_date = Date(1996, 12, 31)
    /\ pure.result = "MILLENNIAL"

----------------------------------------------------------------------------
(* Weighted choice *)

MaxKeys == 3

\* Weights, in halves of a unit, so that a draw can fall strictly between
\* two cumulative weights
Weights == {0, 2, 4}

\* The mappings handed to weighted_random_choice, in iteration order: the
\* i-th key is i
ChoiceMaps ==
    UNION {[1..n -> Weights] : n \in 1..MaxKeys}

RECURSIVE Total(_, _)
\* sum of the first n values of choices
Total(choices, n) == IF n = 0 THEN 0 ELSE Total(choices, n - 1) + choices[n]

RECURSIVE Scan_Leq(_, _, _)
Scan_Leq(choices, i, r) ==
    IF i > Len(choices) THEN Len(choices)
    ELSE IF r <= choices[i] THEN i
    ELSE Scan_Leq(choices, i + 1, r - choices[i])

RECURSIVE Scan(_, _, _)
\* weighted_random_choice: the loop from the i-th item on, and the fallback
Scan(choices, i, r) ==
    IF i > Len(choices) THEN Len(choices)
    ELSE IF r < choices[i] THEN i
    ELSE Scan(choices, i + 1, r - choices[i])

WeightedRandomChoice_Leq(choices, r) == Scan_Leq(choices, 1, r)

\* weighted_random_choice(choices) when random.uniform(0, total) gave r
WeightedRandomChoice(choices, r) == Scan(choices, 1, r)

\* r = random.uniform(0, total) lies in [0, total], both ends included
ApplyWeightedRandomChoice ==
    /\ pure.fn = "idle"
    /\ \E choices \in ChoiceMaps :
          \E r \in 0..Total(choices, Len(choices)) :
             pure' = [fn |-> "weighted_random_choice", choices |-> choices,
                      r |-> r, result |-> WeightedRandomChoice(choices, r)]
    /\ UNCHANGED <<company, rng, package, wf, pc, slots, db, invocation, faults,
                   call, db_name, returned>>

\* The categories whose cumulative weight exceeds the draw
Exceeding(choices, r) == {i \in DOMAIN choices : Total(choices, i) > r}

\* C16: for a draw below the sum of the weights the result is the first
\* category, in iteration order, whose cumulative weight exceeds the draw;
\* when no category's does, the result is the last category; the result is
\* always a key of the mapping.
C16_WeightedChoice ==
    pure.fn = "weighted_random_choice" =>
        LET c == pure.choices
            E == Exceeding(c, pure.r)
        IN /\ pure.r < Total(c, Len(c)) =>
                 /\ pure.result \in E
                 /\ \A i \in E : pure.result <= i
           /\ E = {} => pure.result = Len(c)
           /\ pure.result \in DOMAIN c

C16_Witness ==
    /\ pure.fn = "weighted_random_choice"
    /\ pure.choices = <<2, 0, 4>>
    /\ pure.r = 3
    /\ pure.result = 3

----------------------------------------------------------------------------
(* Construction of an Employee *)

\* Employee(job_id=..., birth_date=...): the fields are validated; generation
\* is a computed property and is not evaluated
Construct(birth_date) ==
    [raised |-> IF ValidDate(birth_date) THEN "nothing" ELSE "ValidationError",
     value |-> [NewEmployee(Job(1), NoneVal, 1, 1) EXCEPT !.id = 1]
               @@ [birth_date |-> birth_date]]

\* employee.model_dump(): every field and every computed field is evaluated
ModelDump(e) ==
    [raised |-> IF Generation(e.birth_date) = "ValueError"
                THEN "ValueError" ELSE "nothing",
     value |-> e @@ [generation |-> Generation(e.birth_date)]]

ApplyEmployee ==
    /\ pure.fn = "idle"
    /\ \E birth_date \in BirthDates :
          pure' = [fn |-> "Employee", birth_date |-> birth_date,
                   result |-> Construct(birth_date)]
    /\ UNCHANGED <<company, rng, package, wf, pc, slots, db, invocation, faults,
                   call, db_name, returned>>

\* get_education_fields(employee, job): employee.model_dump() is the first
\* use of the object after its construction
ApplyModelDump ==
    /\ pure.fn = "Employee" /\ pure.result.raised = "nothing"
    /\ pure' = [fn |-> "model_dump", birth_date |-> pure.birth_date,
                result |-> ModelDump(pure.result.value)]
    /\ UNCHANGED <<company, rng, package, wf, pc, slots, db, invocation, faults,
                   call, db_name, returned>>

\* C18: the construction of an Employee whose birth_date is 2016-01-01 or
\* later raises an error, so that no such object is handed to a later step.
C18_LateBirthDateFailsAtConstruction ==
    /\ (pure.fn = "Employee" /\ DateAtMost(Date(2016, 1, 1), pure.birth_date))
          => pure.result.raised # "nothing"
    /\ pure.fn = "model_dump" => DateLess(pure.birth_date, Date(2016, 1, 1))

NextPure ==
    \/ ApplyBatchIterator
    \/ ApplyGetBirthDate
    \/ ApplyWeightedRandomChoice
    \/ ApplyGeneration
    \/ ApplyEmployee
    \/ ApplyModelDump

SpecPure == InitPure /\ [][NextPure]_vars

----------------------------------------------------------------------------
(* Round trip and idempotence of the storage layer *)

\* The rows the call in progress has added
RowsAdded == TableOf(db) \ TableOf(call.pre)

ExactlyOneParent(row) ==
    (row.department_id = NoneVal) # (row.business_unit_id = NoneVal)

\* What the stored row keeps of the Employee, the id aside
SameButId(row, e) ==
    /\ row.job_id = e.job_id
    /\ ExactlyOneParent(row)
    /\ row.department_id = e.department_id
    /\ row.business_unit_id = e.business_unit_id

\* C19 as stated: after add_employee(e) has returned, the stored employee
\* has the id and the job_id e came with and exactly one of department_id
\* and business_unit_id, the one set on e.
C19_RoundTripSameId ==
    (call.op = "add_employee" /\ call.status = "ok") =>
        /\ Cardinality(RowsAdded) = 1
        /\ \A row \in RowsAdded :
              row.id = call.orig /\ SameButId(row, call.entity)

\* C19, amended: after add_employee(e) has returned, the stored employee has
\* the job_id e came with and exactly one of department_id and
\* business_unit_id, the one set on e; its id is the id e came with unless
\* that id was already a key of the table, and then it is the regenerated id
\* that e carries on return.
C19_RoundTripUnlessCollision ==
    (call.op = "add_employee" /\ call.status = "ok") =>
        /\ Cardinality(RowsAdded) = 1
        /\ \A row \in RowsAdded :
              /\ row.id = call.entity.id
              /\ ~Collides => row.id = call.orig
              /\ Collides => row.id # call.orig
              /\ SameButId(row, call.entity)

C19_Witness ==
    /\ call.op = "add_employee" /\ call.status = "ok"
    /\ Collides
    /\ call.entity.department_id # NoneVal
    /\ \E row \in RowsAdded : row.id = call.entity.id

\* C20: create_tables called on a database that has its tables, with or
\* without rows, raises no error and leaves the schema and every row as
\* they were.
C20_CreateTablesIdempotent ==
    (call.op = "create_tables" /\ call.pre.tables = AllTables) =>
        /\ db = call.pre
        /\ call.status \in {"running", "ok", "OtherError"}
        /\ call.status = "ok" => call.attempts = Len(TableOrder)

C20_Witness ==
    /\ call.op = "create_tables" /\ call.status = "ok"
    /\ call.pre.tables = AllTables
    /\ db.employees # {} /\ db.compensations # {}

----------------------------------------------------------------------------
(* The derived total *)

\* base + bonus + commission, a null counted as 0
SumOfComponents(c) ==
    c.annual_base_salary
    + (IF c.annual_bonus_amount = NoneVal THEN 0 ELSE c.annual_bonus_amount)
    + (IF c.annual_commission_amount = NoneVal
       THEN 0 ELSE c.annual_commission_amount)

\* C21: for a Compensation with base >= 1 and bonus and commission null or
\* >= 0, total_compensation is base + bonus + commission with a null
\* counted as 0, so it is at least the base, and the row add_compensation
\* stores carries that total.
C21_StoredTotalIsDerived ==
    (call.op = "add_compensation" /\ call.status = "ok") =>
        /\ TotalCompensation(call.entity) = SumOfComponents(call.entity)
        /\ TotalCompensation(call.entity) >= call.entity.annual_base_salary
        /\ Cardinality(RowsAdded) = 1
        /\ \A row \in RowsAdded :
              /\ row.total_compensation = SumOfComponents(call.entity)
              /\ row.total_compensation >= row.annual_base_salary
              /\ row.annual_base_salary = call.entity.annual_base_salary

C21_Witness ==
    /\ call.op = "add_compensation" /\ call.status = "ok"
    /\ call.entity.annual_bonus_amount = 0
    /\ call.entity.annual_commission_amount = 1
    /\ \E row \in RowsAdded : row.total_compensation = 2

----------------------------------------------------------------------------
(* Completion of a batch *)

\* C22: when the failure of an expansion has been propagated out of its
\* batch and the run has failed, no expansion of the batch is still in
\* progress (so nothing is written after the run has ended).
C22_NoSiblingOutlivesTheBatch ==
    wf = "failed" => SlotsInProgress = {}

----------------------------------------------------------------------------
(* Order of the traversal *)

\* The expansion of the position has written its employee and compensation
Completed(p) == \E e \in EmployeesAt(p) : CompensationsOf(e) # {}

\* The positions that come before p in the traversal of the Company; the
\* position keys grow along the traversal
Before(p) == {q \in Positions : q < p}

\* C23: an expansion is started only when every position before it in the
\* traversal, other than those of its own batch, has completed; a
\* department is inserted only when every position of the departments
\* before it has completed, and a business unit only when every position of
\* the business units before it has completed.
C23_OneAfterTheOther ==
    /\ \A i \in DOMAIN slots :
          \A q \in Before(slots[i].pos) :
             ~SameBatch(q, slots[i].pos) => Completed(q)
    /\ \A b \in DOMAIN company.business_units :
          /\ BU(b).id \in Ids(db.business_units)
                => \A q \in Before(PosKey(b, 0, 0, 0)) : Completed(q)
          /\ \A d \in DOMAIN BU(b).departments :
                Dept(b, d).id \in Ids(db.departments)
                   => \A q \in Before(PosKey(b, d, 0, 0)) : Completed(q)

C23_Witness ==
    /\ \E i \in DOMAIN slots :
          /\ PosIndex(slots[i].pos) > BatchSize
          /\ InProgress(slots[i])
    /\ Cardinality(db.business_units) = 1

\* C24: when a rank-and-file expansion of a department has been started,
\* the business unit row, the director's rows, the department row and the
\* manager's rows are in the database; when a department row is in the
\* database, the director of its business unit has completed.
C24_HeadsBeforeRankAndFile ==
    /\ \A i \in DOMAIN slots :
          ~IsHead(slots[i].pos) =>
              LET b == PosBU(slots[i].pos)
                  d == PosDept(slots[i].pos)
              IN /\ BU(b).id \in Ids(db.business_units)
                 /\ Completed(PosKey(b, 0, 0, 0))
                 /\ Dept(b, d).id \in Ids(db.departments)
                 /\ Completed(PosKey(b, d, 0, 0))
    /\ \A b \in DOMAIN company.business_units :
          \A d \in DOMAIN BU(b).departments :
             Dept(b, d).id \in Ids(db.departments)
                => Completed(PosKey(b, 0, 0, 0))

C24_Witness ==
    /\ \E i \in DOMAIN slots :
          ~IsHead(slots[i].pos) /\ slots[i].pc = "get_education_fields"
    /\ Cardinality(db.departments) = 2

----------------------------------------------------------------------------
(* The steps of one expansion *)

\* The rows the expansion of the position has written
CompensationsAt(p) == {c \in db.compensations : PosOfUuid(c.employee_id) = p}

\* The expansion has no result of get_employee_compensation: it is at one
\* of the two generate calls, or it failed at one of them
BeforeInserts(s) ==
    \/ s.pc \in {"get_education_fields", "get_employee_compensation"}
    \/ s.pc = "failed" /\ s.saved.compensation = NoCompensation

\* C25: an expansion that is at, or has failed at, get_education_fields or
\* get_employee_compensation has written neither an employee row nor a
\* compensation row: add_employee is issued only after both have succeeded.
C25_NoRowBeforeBothGenerated ==
    \A i \in DOMAIN slots :
        BeforeInserts(slots[i]) =>
            /\ EmployeesAt(slots[i].pos) = {}
            /\ CompensationsAt(slots[i].pos) = {}

C25_Witness ==
    /\ wf = "failed"
    /\ \E i \in DOMAIN slots :
          /\ slots[i].pc = "failed"
          /\ slots[i].saved.education # NoneVal
          /\ slots[i].saved.compensation = NoCompensation
    /\ db.employees # {}

\* C27: every Employee the workflow constructs has exactly one parent: a
\* director has the id of its business unit as business_unit_id and no
\* department_id; a manager and a rank-and-file employee have the id of
\* their department as department_id and no business_unit_id.  So no
\* Employee submitted to add_employee violates the CHECK.
C27_ExactlyOneParent ==
    \A i \in DOMAIN slots :
        LET e == slots[i].employee
            b == PosBU(slots[i].pos)
            d == PosDept(slots[i].pos)
        IN /\ d = 0 => /\ e.business_unit_id = BU(b).id
                       /\ e.department_id = NoneVal
           /\ d # 0 => /\ e.department_id = Dept(b, d).id
                       /\ e.business_unit_id = NoneVal
           /\ ~EmployeeCheckViolation(EmployeeRow(e))

C27_Witness ==
    /\ \E i \in DOMAIN slots :
          /\ PosDept(slots[i].pos) # 0 /\ IsHead(slots[i].pos)
          /\ slots[i].pc = "add_employee"
    /\ \E e \in db.employees : e.business_unit_id # NoneVal

----------------------------------------------------------------------------
(* The collision loop *)

LoopingInserts == {"add_employee", "add_compensation"}

\* The entity of the call in progress violates nothing but, possibly, the
\* primary key, and its values fit their columns
OnlyKeyAtStake ==
    /\ ~DanglingReference
    /\ call.op = "add_employee" => ~EmployeeCheckViolation(RowOf)
    /\ call.op = "add_compensation" => ~DecimalOverflow(RowOf)

\* The identifier the entity has now is a key of the table
CollidesNow == PkViolation(TableOf(db), RowOf)

\* C28: one turn of the loop of add_employee or add_compensation, for an
\* entity that violates at most the primary key.  If the identifier is a
\* key of the table the turn writes nothing, regenerates the identifier and
\* the loop goes on, whatever the number of turns made: no constraint error
\* is reported.  If the identifier is free the turn ends the call with
\* success.  (An error of the storage that is no constraint violation ends
\* the call in either case.)
C28_LoopUntilFreeIdentifier ==
    [][ ( /\ call.op \in LoopingInserts /\ call.status = "running"
          /\ OnlyKeyAtStake
          /\ call'.attempts = call.attempts + 1 )
        => \/ call'.status = "OtherError" /\ db' = db
           \/ /\ CollidesNow
              /\ call'.status = "running"
              /\ db' = db
              /\ call'.entity.id # call.entity.id
           \/ /\ ~CollidesNow
              /\ call'.status = "ok"
              /\ db' # db
      ]_vars

C28_Witness ==
    /\ call.op \in LoopingInserts
    /\ call.status = "running"
    /\ call.attempts = MaxAttempts
    /\ OnlyKeyAtStake
    /\ CollidesNow

----------------------------------------------------------------------------
(* The seeded generator *)

\* The rank of a position in the traversal of the Company: business units in
\* order, the director, then per department the manager and the jobs' staff
Rank(p) == Cardinality({q \in Positions : q <= p})

\* The employee at the k-th position was built from the values the
\* generator gives out at ranks 6(k-1)+1 .. 6k: generation, the year, month
\* and day of the birth date, gender, ethnicity
DrawnForRank(e, k) ==
    /\ e.generation = DrawsPerEmployee * (k - 1) + 1
    /\ e.birth_date = <<DrawsPerEmployee * (k - 1) + 2,
                        DrawsPerEmployee * (k - 1) + 3,
                        DrawsPerEmployee * (k - 1) + 4>>
    /\ e.gender = DrawsPerEmployee * (k - 1) + 5
    /\ e.ethnicity = DrawsPerEmployee * (k - 1) + 6

\* C29: the demographic draws are serialized and reproducible: the generator
\* is called only by the orchestrating step, for one employee at a time as
\* it launches that employee's expansion, and never by a step of an
\* expansion (the expansions already running are left as they are); in
\* every interleaving of the expansions the k-th employee in traversal
\* order holds the values the generator gives out at the same ranks.
C29_DrawsSerializedAndReproducible ==
    /\ [](\A i \in DOMAIN slots : DrawnForRank(slots[i].employee, Rank(slots[i].pos)))
    /\ [][rng' # rng =>
            /\ rng' = rng + DrawsPerEmployee
            /\ Len(slots') = Len(slots) + 1
            /\ SubSeq(slots', 1, Len(slots)) = slots
            /\ slots'[Len(slots')].pc = "get_education_fields"]_vars

\* A batch, drawn for after the director and the manager, whose second
\* expansion has completed while its first has not started its first step
\* and while the orchestrating step has still to draw for its later members
C29_Witness ==
    /\ Len(slots) >= 2
    /\ Len(slots) < CallsOf(pc)
    /\ slots[1].pc = "get_education_fields"
    /\ slots[2].pc = "done"
    /\ Rank(slots[1].pos) >= 3
    /\ DrawnForRank(slots[2].employee, Rank(slots[1].pos) + 1)

----------------------------------------------------------------------------
(* The life of one employee *)

StepOrder ==
    <<"get_education_fields", "get_employee_compensation", "add_employee",
      "add_compensation", "done">>

StepIndex(step) == CHOOSE n \in DOMAIN StepOrder : StepOrder[n] = step

\* What a task at a given step has done and has not done yet
AsTheStepRequires(s) ==
    LET n == IF s.pc = "failed" THEN 0 ELSE StepIndex(s.pc) IN
    /\ n = 1 => s.employee.education_level = NoneVal
    /\ n >= 2 => s.employee.education_level # NoneVal
    /\ n \in 1..2 => s.compensation = NoCompensation
    /\ n >= 3 => s.compensation # NoCompensation
    /\ n \in 1..3 => EmployeesAt(s.pos) = {}
    /\ n >= 4 => EmployeesAt(s.pos) = {EmployeeRow(s.employee)}
    /\ n \in 1..4 => CompensationsAt(s.pos) = {}
    /\ n = 5 => CompensationsAt(s.pos)
                    = {CompensationRow(s.compensation, s.employee.id)}

\* One step of a task: it stays at its step (a turn of an insert loop), moves
\* to the next one or fails; creation data is kept, education is set once
OneStep(s, t) ==
    /\ \/ t.pc = "failed"
       \/ /\ s.pc # "failed"
          /\ StepIndex(t.pc) \in {StepIndex(s.pc), StepIndex(s.pc) + 1}
    /\ t.employee.job_id = s.employee.job_id
    /\ t.employee.department_id = s.employee.department_id
    /\ t.employee.business_unit_id = s.employee.business_unit_id
    /\ t.employee.birth_date = s.employee.birth_date
    /\ t.employee.gender = s.employee.gender
    /\ t.employee.ethnicity = s.employee.ethnicity
    /\ t.employee.education_level # s.employee.education_level
          => /\ s.pc = "get_education_fields"
             /\ t.pc = "get_employee_compensation"
             /\ s.employee.education_level = NoneVal

\* C26: every employee passes through its steps in one order: created with
\* demographics fixed and education null, education filled exactly once,
\* compensation generated, employee inserted, compensation inserted; every
\* persisted employee row has its education filled, and birth_date, gender,
\* ethnicity, job_id and the parent reference never change after creation.
C26_StepsInOrder ==
    /\ [](/\ \A i \in DOMAIN slots : AsTheStepRequires(slots[i])
          /\ \A e \in db.employees : e.education_level # NoneVal)
    /\ [][\A i \in DOMAIN slots \cap DOMAIN slots' :
             slots'[i].pos = slots[i].pos => OneStep(slots[i], slots'[i])]_vars

\* A batch with one employee persisted in full, education filled, beside a
\* sibling that has not yet got its education
C26_Witness ==
    /\ Len(slots) >= 2
    /\ slots[1].pc = "done"
    /\ \E e \in EmployeesAt(slots[1].pos) :
          /\ e.education_level = EducationFields.education_level
          /\ CompensationsOf(e) # {}
    /\ slots[2].pc = "get_education_fields"
    /\ slots[2].employee.education_level = NoneVal
    /\ slots[1].draws > 1

----------------------------------------------------------------------------
(* add_employee_to_db on a database that holds the employee's identifier *)

\* C30: when add_employee recovers from a collision by regenerating the
\* employee's identifier, the compensation inserted for that employee
\* references the identifier under which the employee row was stored, never
\* the colliding one: the compensation row references the employee it was
\* generated for.
C30_CompensationReferencesStoredEmployee ==
    call.op = "add_employee_to_db" =>
        LET stored == db.employees \ call.pre.employees
            added == db.compensations \ call.pre.compensations
        IN /\ call.status = "ok" => added # {}
           /\ \A c \in added :
                 /\ \E e \in stored : stored = {e} /\ c.employee_id = e.id
                 /\ call.orig \in Ids(call.pre.employees)
                       => c.employee_id # call.orig

\* The call has returned; the identifier the employee came with was that of
\* another employee's row, and the compensation is stored
C30_Witness ==
    /\ call.op = "add_employee_to_db" /\ call.status = "ok"
    /\ call.orig \in Ids(call.pre.employees)
    /\ call.entity.id # call.orig
    /\ \E c \in db.compensations \ call.pre.compensations :
          c.employee_id = call.entity.id

====
